---- MODULE Spec2Model ----
(***************************************************************************)
(* A model of the sudoku backend (src/main.py): the hint engine            *)
(* (get_candidates, is_incorrect_cell, get_hint), the account and          *)
(* verification-code endpoints, and the owner-checked game-state           *)
(* endpoints.  The database tables are the variables users, codes and      *)
(* games; every endpoint is one action, and last holds the response of     *)
(* the request handled most recently together with the request itself.     *)
(***************************************************************************)
EXTENDS Integers, Sequences, FiniteSets, TLC

VARIABLES users, codes, games, now, last, inflight

vars == <<users, codes, games, now, last, inflight>>

----------------------------------------------------------------------------
(* Grids.  A grid is board[row][col] with row, col in 0..8 and 0 = empty.  *)

N == 9

BoxSize == 3

Idx == 0 .. (N - 1)

Cells == Idx \X Idx

\* range(a, b) of Python, as the sequence a, a+1, ..., b-1
range(a, b) == [k \in 1 .. (b - a) |-> a + k - 1]

\* The set of the elements of a sequence
Elems(s) == {s[k] : k \in 1 .. Len(s)}

\* json.dumps of a grid: the text lists the 81 cells row after row
json_dumps(grid) == [k \in 1 .. (N * N) |-> grid[(k - 1) \div N][(k - 1) % N]]

\* json.loads of such a text: the rows are cut out of it again
json_loads(text) == [r \in Idx |-> [c \in Idx |-> text[N * r + c + 1]]]

\* get_candidates without its third step: the box is not looked at
get_candidates_without_box(board, row, col) ==
    LET rowVals == {board[row][j] : j \in {j \in Idx : board[row][j] # 0}}
        colVals == {board[i][col] : i \in {i \in Idx : board[i][col] # 0}}
    IN  ((1 .. N) \ rowVals) \ colVals

\* candidates = set(range(1, 10)) minus the non-zero digits of the row, of the
\* column and of the 3x3 box of (row, col)
get_candidates(board, row, col) ==
    LET rowVals == {board[row][j] : j \in {j \in Idx : board[row][j] # 0}}
        colVals == {board[i][col] : i \in {i \in Idx : board[i][col] # 0}}
        start_row == BoxSize * (row \div BoxSize)
        start_col == BoxSize * (col \div BoxSize)
        box == (start_row .. (start_row + BoxSize - 1))
                   \X (start_col .. (start_col + BoxSize - 1))
        boxVals == {board[p[1]][p[2]] : p \in {p \in box : board[p[1]][p[2]] # 0}}
    IN  (((1 .. N) \ rowVals) \ colVals) \ boxVals

is_incorrect_cell(board, solution, row, col) ==
    IF board[row][col] = 0 THEN FALSE
    ELSE board[row][col] # solution[row][col]

\* hint_cell = None
NoCell == [row |-> -1, col |-> -1]

\* the first scan with its loops exchanged: cells are visited column after column
RECURSIVE first_incorrect_by_column(_, _, _)
first_incorrect_by_column(board, solution, k) ==
    IF k >= N * N THEN NoCell
    ELSE IF is_incorrect_cell(board, solution, k % N, k \div N)
         THEN [row |-> k % N, col |-> k \div N]
         ELSE first_incorrect_by_column(board, solution, k + 1)

\* The first pair of loops of get_hint: cells are visited row after row
\* (k = 9 * i + j) and the scan stops at the first incorrect cell.
RECURSIVE first_incorrect(_, _, _)
first_incorrect(board, solution, k) ==
    IF k >= N * N THEN NoCell
    ELSE IF is_incorrect_cell(board, solution, k \div N, k % N)
         THEN [row |-> k \div N, col |-> k % N]
         ELSE first_incorrect(board, solution, k + 1)

\* the second scan with <= for <: of the cells with the fewest candidates the
\* last one is kept
RECURSIVE fewest_candidates_last_kept(_, _, _, _)
fewest_candidates_last_kept(board, k, min_candidates, hint_cell) ==
    IF k >= N * N THEN hint_cell
    ELSE LET i == k \div N
             j == k % N
             n == Cardinality(get_candidates(board, i, j))
         IN  IF board[i][j] = 0 /\ n <= min_candidates /\ n > 0
             THEN fewest_candidates_last_kept(board, k + 1, n, [row |-> i, col |-> j])
             ELSE fewest_candidates_last_kept(board, k + 1, min_candidates, hint_cell)

\* the second scan with > 1 for > 0: a cell with one candidate is passed over
RECURSIVE fewest_candidates_above_one(_, _, _, _)
fewest_candidates_above_one(board, k, min_candidates, hint_cell) ==
    IF k >= N * N THEN hint_cell
    ELSE LET i == k \div N
             j == k % N
             n == Cardinality(get_candidates(board, i, j))
         IN  IF board[i][j] = 0 /\ n < min_candidates /\ n > 1
             THEN fewest_candidates_above_one(board, k + 1, n, [row |-> i, col |-> j])
             ELSE fewest_candidates_above_one(board, k + 1, min_candidates, hint_cell)

\* The second pair of loops: the empty cell with the fewest candidates, more
\* than none; a later cell replaces the kept one only with strictly fewer.
RECURSIVE fewest_candidates(_, _, _, _)
fewest_candidates(board, k, min_candidates, hint_cell) ==
    IF k >= N * N THEN hint_cell
    ELSE LET i == k \div N
             j == k % N
             n == Cardinality(get_candidates(board, i, j))
         IN  IF board[i][j] = 0 /\ n < min_candidates /\ n > 0
             THEN fewest_candidates(board, k + 1, n, [row |-> i, col |-> j])
             ELSE fewest_candidates(board, k + 1, min_candidates, hint_cell)

\* row_nums = [num for num in board[row] if num != 0 and num != board[row][col]]
row_nums(board, row, col) ==
    SelectSeq([k \in 1 .. N |-> board[row][k - 1]],
              LAMBDA num : num # 0 /\ num # board[row][col])

\* col_nums = [board[i][col] for i in range(9)
\*             if board[i][col] != 0 and (i != row or not is_incorrect)]
col_nums(board, row, col, is_incorrect) ==
    LET kept == SelectSeq(range(0, N),
                          LAMBDA i : board[i][col] # 0 /\ (i # row \/ ~is_incorrect))
    IN  [k \in 1 .. Len(kept) |-> board[kept[k]][col]]

\* box_nums = [board[i][j] for i in range(start_row, start_row + 3)
\*             for j in range(start_col, start_col + 3)
\*             if board[i][j] != 0 and (i != row or j != col or not is_incorrect)]
box_nums(board, row, col, is_incorrect) ==
    LET start_row == BoxSize * (row \div BoxSize)
        start_col == BoxSize * (col \div BoxSize)
        at == [k \in 1 .. (BoxSize * BoxSize) |->
                  <<start_row + ((k - 1) \div BoxSize), start_col + ((k - 1) % BoxSize)>>]
        kept == SelectSeq(at, LAMBDA p : board[p[1]][p[2]] # 0
                                  /\ (p[1] # row \/ p[2] # col \/ ~is_incorrect))
    IN  [k \in 1 .. Len(kept) |-> board[kept[k][1]][kept[k][2]]]

\* The body of get_hint after the record is loaded and the owner checked:
\* the chosen cell, its value, and the three lists of the explanation.
NoHint == [found |-> FALSE, row |-> -1, col |-> -1, value |-> 0,
           is_incorrect |-> FALSE, row_nums |-> <<>>, col_nums |-> <<>>,
           box_nums |-> <<>>]

select_hint(board, solution) ==
    LET wrong == first_incorrect(board, solution, 0)
        is_incorrect == wrong # NoCell
        hint_cell == IF is_incorrect THEN wrong
                     ELSE fewest_candidates(board, 0, 10, NoCell)
    IN  IF hint_cell = NoCell THEN NoHint
        ELSE [found |-> TRUE, row |-> hint_cell.row, col |-> hint_cell.col,
              value |-> solution[hint_cell.row][hint_cell.col],
              is_incorrect |-> is_incorrect,
              row_nums |-> row_nums(board, hint_cell.row, hint_cell.col),
              col_nums |-> col_nums(board, hint_cell.row, hint_cell.col, is_incorrect),
              box_nums |-> box_nums(board, hint_cell.row, hint_cell.col, is_incorrect)]

----------------------------------------------------------------------------
(* Bounds of the model.                                                    *)

\* usernames and e-mail addresses are 1 .. MaxNames
MaxNames == 2

\* passwords are 1 .. MaxPasswords
MaxPasswords == 2

\* the six-digit code strings are 1 .. MaxCodeValues
MaxCodeValues == 2

\* rows of verification_codes
MaxCodes == 2

\* the clock stops at MaxNow minutes, and moves TickStep minutes at a time
MaxNow == 20

TickStep == 10

\* ids of game_states
MaxGameId == 2

\* time_played of a request is in 0 .. MaxPlayed
MaxPlayed == 1

\* a board sent by the player differs from the puzzle in at most MaxEdits cells
MaxEdits == 2

\* requests that are handled at the same time
MaxRequests == 2

Usernames == 1 .. MaxNames

Emails == 1 .. MaxNames

Passwords == 1 .. MaxPasswords

CodeValues == 1 .. MaxCodeValues

Requests == 1 .. MaxRequests

----------------------------------------------------------------------------
(* Responses.  status is "ok" or the error the handler raised; the other   *)
(* fields repeat the request and carry the body of the answer.             *)

Resp(op) ==
    [op |-> op, status |-> "ok", caller |-> 0, username |-> 0, email |-> 0,
     code |-> 0, gid |-> 0, owner |-> 0,
     candidates |-> <<>>, hint |-> NoHint, listed |-> {}]

\* A request in flight: what it submitted, the statement of the handler it
\* stands before, the row its query loaded, and the answer once it has one.
NoRequest ==
    [op |-> "none", email |-> 0, code |-> 0, new_password |-> 0,
     pc |-> "idle", row |-> <<>>, status |-> "none"]

\* no request is being handled
Idle == [r \in Requests |-> NoRequest]

----------------------------------------------------------------------------
(* Accounts and verification codes.                                        *)

\* timedelta(minutes=10) of register and timedelta(minutes=15) of forgot_password
RegistrationTTL == 10

ResetTTL == 15

\* pwd_context.hash and pwd_context.verify: the hash is not the password,
\* and verifies exactly the password it was made from
get_password_hash(password) == <<"bcrypt", password>>

verify_password(plain_password, hashed_password) ==
    hashed_password = <<"bcrypt", plain_password>>

\* db.query(User).filter(User.email == email).first(), as the set of the rows
users_by_email(email) == {u \in Elems(users) : u.email = email}

\* the username query finding nothing
users_by_username_none(username) == {}

\* db.query(User).filter(User.username == username).first(), as the set of the rows
users_by_username(username) == {u \in Elems(users) : u.username = username}

\* db.query(User).filter(User.id == user_id, User.email == email).first()
users_by_id_email(user_id, email) ==
    {u \in Elems(users) : u.id = user_id /\ u.email = email}

\* the lookup by the code value alone
first_code_any_purpose(code, purpose) ==
    LET hits == {k \in 1 .. Len(codes) : codes[k].code = code}
    IN  IF hits = {} THEN 0 ELSE CHOOSE k \in hits : \A m \in hits : k <= m

\* db.query(VerificationCode).filter(code == code, purpose == purpose).first():
\* the rows of the table are kept in the order of their ids, which is the order
\* SQLite returns them in; 0 when no row matches.
first_code(code, purpose) ==
    LET hits == {k \in 1 .. Len(codes) :
                    codes[k].code = code /\ codes[k].purpose = purpose}
    IN  IF hits = {} THEN 0 ELSE CHOOSE k \in hits : \A m \in hits : k <= m

\* the code refused from its expiry instant on
expired_at_instant(verification_code) == verification_code.expires_at <= now

\* the comparison turned round
expired_reversed(verification_code) == verification_code.expires_at > now

\* verification_code.expires_at < datetime.utcnow()
expired(verification_code) == verification_code.expires_at < now

\* the delete left out, as in verify_code
delete_code_left_out(k) == codes

\* db.delete(verification_code) of row k
delete_code(k) == [m \in 1 .. (Len(codes) - 1) |-> IF m < k THEN codes[m] ELSE codes[m + 1]]

\* db.add(VerificationCode(...)); db.commit()
add_code(user_id, code, purpose, ttl) ==
    Append(codes, [user_id |-> user_id, code |-> code, purpose |-> purpose,
                   expires_at |-> now + ttl])

\* db.add(User(...)); db.commit()
add_user(user_id, username, email, password) ==
    Append(users, [id |-> user_id, username |-> username, email |-> email,
                   hashed_password |-> get_password_hash(password)])

\* POST /register.  code is what generate_verification_code returns and sent
\* tells whether send_verification_email got the mail out.
register(username, email, password, code, sent) ==
    LET req == [Resp("register") EXCEPT !.username = username, !.email = email]
        user_id == Len(users) + 1
    IN  IF users_by_email(email) # {}
        THEN /\ last' = [req EXCEPT !.status = "DuplicateEmail"]
             /\ UNCHANGED <<users, codes, games, now>>
        ELSE IF users_by_username(username) # {}
        THEN /\ last' = [req EXCEPT !.status = "DuplicateUsername"]
             /\ UNCHANGED <<users, codes, games, now>>
        ELSE /\ Len(codes) < MaxCodes
             /\ users' = add_user(user_id, username, email, password)
             /\ codes' = add_code(user_id, code, "registration", RegistrationTTL)
             /\ last' = [req EXCEPT !.status =
                            IF sent THEN "ok" ELSE "NotificationDeliveryFailed"]
             /\ UNCHANGED <<games, now>>

\* The lookup, the expiry check and the account check shared by
\* verify_registration, verify_code and reset_password: the error, or "ok".
check_code(email, code, purpose) ==
    LET k == first_code(code, purpose)
    IN  IF k = 0 THEN "InvalidCode"
        ELSE IF expired(codes[k]) THEN "ExpiredCode"
        ELSE IF users_by_id_email(codes[k].user_id, email) = {} THEN "AccountMismatch"
        ELSE "ok"

\* POST /verify-registration
verify_registration(email, code) ==
    LET req == [Resp("verify_registration") EXCEPT !.email = email, !.code = code]
        verdict == check_code(email, code, "registration")
    IN  /\ last' = [req EXCEPT !.status = verdict]
        /\ codes' = IF verdict = "ok"
                    THEN delete_code(first_code(code, "registration")) ELSE codes
        /\ UNCHANGED <<users, games, now>>

\* the probe deleting the row it matched, as the consuming flows do
verify_code_consuming(email, code) ==
    LET req == [Resp("verify_code") EXCEPT !.email = email, !.code = code]
        verdict == check_code(email, code, "password_reset")
    IN  /\ last' = [req EXCEPT !.status = verdict]
        /\ codes' = IF verdict = "ok"
                    THEN delete_code(first_code(code, "password_reset")) ELSE codes
        /\ UNCHANGED <<users, games, now>>

\* POST /verify-code
verify_code(email, code) ==
    LET req == [Resp("verify_code") EXCEPT !.email = email, !.code = code]
    IN  /\ last' = [req EXCEPT !.status = check_code(email, code, "password_reset")]
        /\ UNCHANGED <<users, codes, games, now>>

\* POST /login
login(email, password) ==
    LET req == [Resp("login") EXCEPT !.email = email]
        found == users_by_email(email)
    IN  /\ last' = [req EXCEPT !.status =
                       IF \E u \in found : verify_password(password, u.hashed_password)
                       THEN "ok" ELSE "InvalidCredentials"]
        /\ UNCHANGED <<users, codes, games, now>>

\* POST /forgot-password
forgot_password(email, code, sent) ==
    LET req == [Resp("forgot_password") EXCEPT !.email = email]
        found == users_by_email(email)
    IN  IF found = {}
        THEN /\ last' = [req EXCEPT !.status = "UnknownEmail"]
             /\ UNCHANGED <<users, codes, games, now>>
        ELSE /\ Len(codes) < MaxCodes
             /\ codes' = add_code((CHOOSE u \in found : TRUE).id, code,
                                  "password_reset", ResetTTL)
             /\ last' = [req EXCEPT !.status =
                            IF sent THEN "ok" ELSE "NotificationDeliveryFailed"]
             /\ UNCHANGED <<users, games, now>>

\* the new hash written to every account
set_password_of_all(user_id, new_password) ==
    [k \in 1 .. Len(users) |->
        [users[k] EXCEPT !.hashed_password = get_password_hash(new_password)]]

\* user.hashed_password = get_password_hash(new_password) for the account user_id
set_password(user_id, new_password) ==
    [k \in 1 .. Len(users) |->
        IF users[k].id = user_id
        THEN [users[k] EXCEPT !.hashed_password = get_password_hash(new_password)]
        ELSE users[k]]

\* POST /reset-password
reset_password(email, code, new_password) ==
    LET req == [Resp("reset_password") EXCEPT !.email = email, !.code = code]
        verdict == check_code(email, code, "password_reset")
        k == first_code(code, "password_reset")
    IN  /\ last' = [req EXCEPT !.status = verdict]
        /\ users' = IF verdict = "ok"
                    THEN set_password(codes[k].user_id, new_password) ELSE users
        /\ codes' = IF verdict = "ok" THEN delete_code(k) ELSE codes
        /\ UNCHANGED <<games, now>>

\* datetime.utcnow() moves on
Tick ==
    /\ now + TickStep <= MaxNow
    /\ now' = now + TickStep
    /\ last' = Resp("tick")
    /\ UNCHANGED <<users, codes, games, inflight>>

----------------------------------------------------------------------------
(* The account endpoints on an empty database.                             *)

Init ==
    /\ inflight = Idle
    /\ users = <<>>
    /\ codes = <<>>
    /\ games = <<>>
    /\ now = 0
    /\ last = Resp("start")

Register ==
    /\ UNCHANGED inflight
    /\ \E username \in Usernames, email \in Emails, password \in Passwords,
       code \in CodeValues, sent \in BOOLEAN :
        register(username, email, password, code, sent)

VerifyRegistration ==
    /\ UNCHANGED inflight
    /\ \E email \in Emails, code \in CodeValues : verify_registration(email, code)

VerifyCode ==
    /\ UNCHANGED inflight
    /\ \E email \in Emails, code \in CodeValues : verify_code(email, code)

Login ==
    /\ UNCHANGED inflight
    /\ \E email \in Emails, password \in Passwords : login(email, password)

ForgotPassword ==
    /\ UNCHANGED inflight
    /\ \E email \in Emails, code \in CodeValues, sent \in BOOLEAN :
        forgot_password(email, code, sent)

ResetPassword ==
    /\ UNCHANGED inflight
    /\ \E email \in Emails, code \in CodeValues, new_password \in Passwords :
        reset_password(email, code, new_password)

Next ==
    \/ Register
    \/ VerifyRegistration
    \/ VerifyCode
    \/ Login
    \/ ForgotPassword
    \/ ResetPassword
    \/ Tick

Spec == Init /\ [][Next]_vars

----------------------------------------------------------------------------
(* Game states.                                                            *)

\* get_current_user: the account a valid bearer token resolves to
get_current_user == Elems(users)

GameIds == DOMAIN games

\* the id SQLite gives the next row of game_states: one more than the largest
next_game_id ==
    IF GameIds = {} THEN 1
    ELSE (CHOOSE g \in GameIds : \A h \in GameIds : h <= g) + 1

\* db.add(db_game); db.commit()
add_game(id, db_game) ==
    [g \in GameIds \cup {id} |-> IF g = id THEN db_game ELSE games[g]]

\* db.delete(db_game); db.commit()
remove_game(id) == [g \in GameIds \ {id} |-> games[g]]

\* the owner check left out
not_owner_unchecked(db_game, current_user) == FALSE

\* db_game.user_id != current_user.id
not_owner(db_game, current_user) == db_game.user_id # current_user.id

\* POST /game
create_game(current_user, user_id, board, initial_puzzle, solution, time_played, level, is_hidden) ==
    LET req == [Resp("create_game") EXCEPT !.caller = current_user.id,
                                           !.owner = user_id]
    IN  IF user_id # current_user.id
        THEN /\ last' = [req EXCEPT !.status = "Forbidden"]
             /\ UNCHANGED <<users, codes, games, now>>
        ELSE /\ next_game_id <= MaxGameId
             /\ games' = add_game(next_game_id,
                            [user_id |-> user_id,
                             board |-> json_dumps(board),
                             initial_puzzle |-> json_dumps(initial_puzzle),
                             solution |-> json_dumps(solution),
                             time_played |-> time_played,
                             level |-> level,
                             created_at |-> now,
                             is_hidden |-> is_hidden])
             /\ last' = [req EXCEPT !.gid = next_game_id]
             /\ UNCHANGED <<users, codes, now>>

\* the listing without the filter on is_hidden
get_games_hidden_too(current_user, user_id) ==
    LET req == [Resp("get_games") EXCEPT !.caller = current_user.id,
                                         !.owner = user_id]
    IN  /\ last' = IF user_id # current_user.id
                   THEN [req EXCEPT !.status = "Forbidden"]
                   ELSE [req EXCEPT !.listed =
                            {g \in GameIds : games[g].user_id = user_id}]
        /\ UNCHANGED <<users, codes, games, now>>

\* GET /game/{user_id}
get_games(current_user, user_id) ==
    LET req == [Resp("get_games") EXCEPT !.caller = current_user.id,
                                         !.owner = user_id]
    IN  /\ last' = IF user_id # current_user.id
                   THEN [req EXCEPT !.status = "Forbidden"]
                   ELSE [req EXCEPT !.listed =
                            {g \in GameIds : games[g].user_id = user_id
                                             /\ games[g].is_hidden = FALSE}]
        /\ UNCHANGED <<users, codes, games, now>>

\* GET /hint/{game_id}
get_hint(current_user, game_id) ==
    LET req == [Resp("get_hint") EXCEPT !.caller = current_user.id, !.gid = game_id]
    IN  /\ last' =
            IF game_id \notin GameIds THEN [req EXCEPT !.status = "NotFound"]
            ELSE IF not_owner(games[game_id], current_user)
                 THEN [req EXCEPT !.status = "Forbidden"]
                 ELSE LET hint == select_hint(json_loads(games[game_id].board),
                                              json_loads(games[game_id].solution))
                      IN  IF hint.found THEN [req EXCEPT !.hint = hint]
                          ELSE [req EXCEPT !.status = "NoHintAvailable"]
        /\ UNCHANGED <<users, codes, games, now>>

\* the update handing the record to whoever sends it
update_game_taking_over(current_user, game_id, board, time_played, is_hidden) ==
    LET req == [Resp("update_game") EXCEPT !.caller = current_user.id,
                                           !.gid = game_id]
    IN  IF game_id \notin GameIds
        THEN /\ last' = [req EXCEPT !.status = "NotFound"]
             /\ UNCHANGED <<users, codes, games, now>>
        ELSE /\ games' = [games EXCEPT ![game_id] =
                            [@ EXCEPT !.user_id = current_user.id,
                                      !.board = json_dumps(board),
                                      !.time_played = time_played,
                                      !.is_hidden = is_hidden]]
             /\ last' = req
             /\ UNCHANGED <<users, codes, now>>

\* PUT /game/{game_id}
update_game(current_user, game_id, board, time_played, is_hidden) ==
    LET req == [Resp("update_game") EXCEPT !.caller = current_user.id,
                                           !.gid = game_id]
    IN  IF game_id \notin GameIds
        THEN /\ last' = [req EXCEPT !.status = "NotFound"]
             /\ UNCHANGED <<users, codes, games, now>>
        ELSE IF not_owner(games[game_id], current_user)
        THEN /\ last' = [req EXCEPT !.status = "Forbidden"]
             /\ UNCHANGED <<users, codes, games, now>>
        ELSE /\ games' = [games EXCEPT ![game_id] =
                            [@ EXCEPT !.board = json_dumps(board),
                                      !.time_played = time_played,
                                      !.is_hidden = is_hidden]]
             /\ last' = req
             /\ UNCHANGED <<users, codes, now>>

\* DELETE /game/{game_id}
delete_game(current_user, game_id) ==
    LET req == [Resp("delete_game") EXCEPT !.caller = current_user.id,
                                           !.gid = game_id]
    IN  IF game_id \notin GameIds
        THEN /\ last' = [req EXCEPT !.status = "NotFound"]
             /\ UNCHANGED <<users, codes, games, now>>
        ELSE IF not_owner(games[game_id], current_user)
        THEN /\ last' = [req EXCEPT !.status = "Forbidden"]
             /\ UNCHANGED <<users, codes, games, now>>
        ELSE /\ games' = remove_game(game_id)
             /\ last' = req
             /\ UNCHANGED <<users, codes, now>>

----------------------------------------------------------------------------
(* The grids the requests of the model carry.                              *)

\* a complete valid grid: every row, column and box holds 1..9 once
Solved == [r \in Idx |-> [c \in Idx |->
              ((BoxSize * (r % BoxSize) + (r \div BoxSize) + c) % N) + 1]]

\* a complete grid that is no solution: the box of (0, 0) holds 1 twice
Flawed == [Solved EXCEPT ![1][1] = 1]

Solutions == {Solved, Flawed}

\* solution with its first k rows blank: the clues of a puzzle
Puzzle(solution, k) ==
    [r \in Idx |-> [c \in Idx |-> IF r < k THEN 0 ELSE solution[r][c]]]

\* a complete puzzle, one with two blank rows, one with no clue
BlankRows == {0, 2, N}

\* the cells the player of the model writes to, and what is written
EditCells == {<<0, 0>>, <<0, 1>>, <<1, 0>>}

CellValues == 0 .. N

WithCell(board, cell, v) == [board EXCEPT ![cell[1]][cell[2]] = v]

\* the number of written cells in which two boards differ
Differences(a, b) == Cardinality({p \in EditCells : a[p[1]][p[2]] # b[p[1]][p[2]]})

\* an account as register leaves it
Account(id, username, email, password) ==
    [id |-> id, username |-> username, email |-> email,
     hashed_password |-> get_password_hash(password)]

\* a row of game_states as create_game leaves it
NewGame(user_id, board, initial_puzzle, solution, time_played, is_hidden) ==
    [user_id |-> user_id, board |-> json_dumps(board),
     initial_puzzle |-> json_dumps(initial_puzzle),
     solution |-> json_dumps(solution), time_played |-> time_played,
     level |-> "easy", created_at |-> 0, is_hidden |-> is_hidden]

----------------------------------------------------------------------------
(* The hint engine on one game of one player: the player fills cells in    *)
(* and asks for hints.                                                     *)

InitHint ==
    /\ inflight = Idle
    /\ users = <<Account(1, 1, 1, 1)>>
    /\ codes = <<>>
    /\ now = 0
    /\ last = Resp("start")
    /\ \E solution \in Solutions, k \in BlankRows :
           games = <<NewGame(1, Puzzle(solution, k), Puzzle(solution, k),
                             solution, 0, FALSE)>>

\* the player writes v into one cell and the client saves the board
Play ==
    /\ UNCHANGED inflight
    /\ \E cell \in EditCells, v \in CellValues :
        LET board == WithCell(json_loads(games[1].board), cell, v)
        IN  /\ Differences(board, json_loads(games[1].initial_puzzle)) <= MaxEdits
            /\ update_game(users[1], 1, board, games[1].time_played,
                           games[1].is_hidden)

Hint == get_hint(users[1], 1) /\ UNCHANGED inflight

\* get_candidates(board, row, col) on the stored board, for every cell
Candidates ==
    LET board == json_loads(games[1].board)
    IN  /\ last' = [Resp("get_candidates") EXCEPT
                       !.gid = 1,
                       !.candidates = [p \in Cells |->
                                          get_candidates(board, p[1], p[2])]]
        /\ UNCHANGED <<users, codes, games, now, inflight>>

NextHint ==
    \/ Play
    \/ Hint
    \/ Candidates

SpecHint == InitHint /\ [][NextHint]_vars

----------------------------------------------------------------------------
(* The game endpoints with two registered players.                         *)

\* the puzzle of the games of this specification, and the boards saved
SessionPuzzle == Puzzle(Solved, 2)

SessionBoards == {SessionPuzzle, WithCell(SessionPuzzle, <<2, 0>>, 1)}

InitGames ==
    /\ inflight = Idle
    /\ users = <<Account(1, 1, 1, 1), Account(2, 2, 2, 1)>>
    /\ codes = <<>>
    /\ games = <<>>
    /\ now = 0
    /\ last = Resp("start")

CreateGame ==
    /\ UNCHANGED inflight
    /\ \E current_user \in get_current_user, user_id \in 1 .. Len(users),
       time_played \in 0 .. MaxPlayed, is_hidden \in BOOLEAN :
        create_game(current_user, user_id, SessionPuzzle, SessionPuzzle, Solved,
                    time_played, "easy", is_hidden)

GetGames ==
    /\ UNCHANGED inflight
    /\ \E current_user \in get_current_user, user_id \in 1 .. Len(users) :
        get_games(current_user, user_id)

GetHint ==
    /\ UNCHANGED inflight
    /\ \E current_user \in get_current_user, game_id \in 1 .. MaxGameId :
        get_hint(current_user, game_id)

UpdateGame ==
    /\ UNCHANGED inflight
    /\ \E current_user \in get_current_user, game_id \in 1 .. MaxGameId,
       board \in SessionBoards, time_played \in 0 .. MaxPlayed,
       is_hidden \in BOOLEAN :
        update_game(current_user, game_id, board, time_played, is_hidden)

DeleteGame ==
    /\ UNCHANGED inflight
    /\ \E current_user \in get_current_user, game_id \in 1 .. MaxGameId :
        delete_game(current_user, game_id)

NextGames ==
    \/ CreateGame
    \/ GetGames
    \/ GetHint
    \/ UpdateGame
    \/ DeleteGame

SpecGames == InitGames /\ [][NextGames]_vars

----------------------------------------------------------------------------
(* verify_registration and reset_password statement by statement, for      *)
(* requests that several workers of the server handle at the same time on  *)
(* the one database file.  A query reads what is committed; db.delete and  *)
(* the assignment to hashed_password stay in the session until db.commit() *)
(* writes them in one transaction.                                         *)

ConsumingOps == {"verify_registration", "reset_password"}

ValidationOps == ConsumingOps \cup {"verify_code"}

\* the purpose each validating endpoint asks for
PurposeOf(op) == IF op = "verify_registration" THEN "registration" ELSE "password_reset"

\* the answer of the request r, as the client gets it
Answer(r, status) ==
    [Resp(inflight[r].op) EXCEPT !.email = inflight[r].email,
                                 !.code = inflight[r].code, !.status = status]

\* raise HTTPException(...) in the request r
raise(r, status) ==
    /\ inflight' = [inflight EXCEPT ![r].pc = "done", ![r].status = status]
    /\ last' = Answer(r, status)
    /\ UNCHANGED <<users, codes, games, now>>

\* the request r moves on to its next statement
goto(r, pc) ==
    /\ inflight' = [inflight EXCEPT ![r].pc = pc]
    /\ UNCHANGED <<users, codes, games, now, last>>

\* DELETE FROM verification_codes WHERE id = <the id of the loaded row>: the
\* row goes if it is still stored; when another request has deleted it the
\* statement matches no row, which the session reports as a warning only
delete_row(row) ==
    LET hits == {k \in 1 .. Len(codes) : codes[k] = row}
    IN  IF hits = {} THEN codes
        ELSE delete_code(CHOOSE k \in hits : \A m \in hits : k <= m)

\* a request arrives
submit(r, op, email, code, new_password) ==
    /\ inflight[r].pc = "idle"
    /\ inflight' = [inflight EXCEPT ![r] =
                       [NoRequest EXCEPT !.op = op, !.email = email, !.code = code,
                                         !.new_password = new_password,
                                         !.pc = "query_code"]]
    /\ UNCHANGED <<users, codes, games, now, last>>

\* verification_code = db.query(VerificationCode).filter(...).first()
\* if not verification_code: raise
query_code(r) ==
    /\ inflight[r].pc = "query_code"
    /\ LET k == first_code(inflight[r].code, PurposeOf(inflight[r].op))
       IN  IF k = 0 THEN raise(r, "InvalidCode")
           ELSE /\ inflight' = [inflight EXCEPT ![r].row = codes[k],
                                                ![r].pc = "check_expiry"]
                /\ UNCHANGED <<users, codes, games, now, last>>

\* if verification_code.expires_at < datetime.utcnow(): raise
check_expiry(r) ==
    /\ inflight[r].pc = "check_expiry"
    /\ IF expired(inflight[r].row) THEN raise(r, "ExpiredCode")
       ELSE goto(r, "query_user")

\* user = db.query(User).filter(User.id == ..., User.email == ...).first()
\* if not user: raise
query_user(r) ==
    /\ inflight[r].pc = "query_user"
    /\ IF users_by_id_email(inflight[r].row.user_id, inflight[r].email) = {}
       THEN raise(r, "AccountMismatch")
       ELSE goto(r, "delete")

\* user.hashed_password = ...; db.delete(verification_code): pending in the session
delete(r) ==
    /\ inflight[r].pc = "delete"
    /\ goto(r, "commit")

\* db.commit(); return {"message": ...}
commit(r) ==
    /\ inflight[r].pc = "commit"
    /\ users' = IF inflight[r].op = "reset_password"
                THEN set_password(inflight[r].row.user_id, inflight[r].new_password)
                ELSE users
    /\ codes' = delete_row(inflight[r].row)
    /\ inflight' = [inflight EXCEPT ![r].pc = "done", ![r].status = "ok"]
    /\ last' = Answer(r, "ok")
    /\ UNCHANGED <<games, now>>

\* two accounts, the registration code of the first still stored, and a
\* password_reset code of the second
InitRace ==
    /\ inflight = Idle
    /\ users = <<Account(1, 1, 1, 1), Account(2, 2, 2, 1)>>
    /\ \E c1 \in CodeValues, c2 \in CodeValues :
           codes = <<[user_id |-> 1, code |-> c1, purpose |-> "registration",
                      expires_at |-> RegistrationTTL],
                     [user_id |-> 2, code |-> c2, purpose |-> "password_reset",
                      expires_at |-> ResetTTL]>>
    /\ games = <<>>
    /\ now = 0
    /\ last = Resp("start")

Submit ==
    \E r \in Requests, op \in ConsumingOps, email \in Emails, code \in CodeValues :
        \E new_password \in IF op = "reset_password" THEN Passwords ELSE {0} :
            submit(r, op, email, code, new_password)

QueryCode == \E r \in Requests : query_code(r)

CheckExpiry == \E r \in Requests : check_expiry(r)

QueryUser == \E r \in Requests : query_user(r)

Delete == \E r \in Requests : delete(r)

Commit == \E r \in Requests : commit(r)

NextRace ==
    \/ Submit
    \/ QueryCode
    \/ CheckExpiry
    \/ QueryUser
    \/ Delete
    \/ Commit
    \/ Tick

SpecRace == InitRace /\ [][NextRace]_vars

----------------------------------------------------------------------------
(* What the hint claims speak of, stated without the code's loops.         *)

\* the board and the solution stored for game g
BoardOf(g) == json_loads(games[g].board)

SolutionOf(g) == json_loads(games[g].solution)

\* (i, j) lies in the row, the column or the 3x3 box of (row, col)
SameUnit(i, j, row, col) ==
    \/ i = row
    \/ j = col
    \/ (i \div 3 = row \div 3 /\ j \div 3 = col \div 3)

\* the cells of the row, the column and the box of each cell
Units == [p \in Cells |-> {q \in Cells : SameUnit(q[1], q[2], p[1], p[2])}]

\* the digits 1..9 some cell of the three units of (row, col) holds
Present(board, row, col) ==
    {board[q[1]][q[2]] : q \in Units[<<row, col>>]} \ {0}

Absent(board, row, col) == (1 .. 9) \ Present(board, row, col)

\* what C1 asks of the result of get_candidates(board, row, col)
CandidatesContract(board, row, col, result) ==
    /\ result \cap Present(board, row, col) = {}
    /\ board[row][col] = 0 => result = Absent(board, row, col)
    /\ Present(board, row, col) = 1 .. 9 => result = {}

\* the position of a cell in the row-major order
Order(p) == 9 * p[1] + p[2]

\* the row-major-first cell of a non-empty set of cells
RowMajorFirst(S) == CHOOSE p \in S : \A q \in S : Order(p) <= Order(q)

\* the non-empty cells that differ from the solution
IncorrectCells(board, solution) ==
    {p \in Cells : board[p[1]][p[2]] # 0 /\ board[p[1]][p[2]] # solution[p[1]][p[2]]}

EmptyCells(board) == {p \in Cells : board[p[1]][p[2]] = 0}

\* the number of candidates of each cell
Counts(board) == [p \in Cells |-> Cardinality(Absent(board, p[1], p[2]))]

\* the empty cells with at least one candidate
OpenCells(board) ==
    LET count == Counts(board) IN {p \in EmptyCells(board) : count[p] > 0}

\* every row, every column and every box of the grid holds each of 1..9
ValidSolution(grid) ==
    \A u \in Idx :
        /\ {grid[u][c] : c \in Idx} = 1 .. 9
        /\ {grid[r][u] : r \in Idx} = 1 .. 9
        /\ {grid[3 * (u \div 3) + (k \div 3)][3 * (u % 3) + (k % 3)] : k \in Idx} = 1 .. 9

\* get_hint got past the lookup and the owner check
HintAnswered ==
    /\ last.op = "get_hint"
    /\ last.status \in {"ok", "NoHintAvailable"}

\* the cell a returned hint names
HintCell == <<last.hint.row, last.hint.col>>

\* C1: for every row and column, get_candidates returns no digit that the
\* row, the column or the box of the cell holds; for an empty cell it returns
\* exactly the digits 1..9 that none of the three holds, and the empty set
\* when they hold all nine.
C1_CandidatesExcludeUnits ==
    last.op = "get_candidates" =>
        LET board == BoardOf(last.gid)
        IN  \A p \in Cells :
                CandidatesContract(board, p[1], p[2], last.candidates[p])

\* get_candidates was called on an empty cell whose units hold all nine
\* digits, and on an empty cell with some digit left
C1_Witness ==
    /\ last.op = "get_candidates"
    /\ LET board == BoardOf(last.gid)
       IN  /\ \E p \in EmptyCells(board) :
                  /\ Present(board, p[1], p[2]) = 1 .. 9
                  /\ last.candidates[p] = {}
           /\ \E p \in EmptyCells(board) : last.candidates[p] # {}

\* C2: when the stored board has a non-empty cell that differs from the
\* solution, get_hint returns the row-major-first such cell with the solution's
\* digit and is_incorrect = true, never a completion hint.
C2_CorrectionFirst ==
    (HintAnswered /\ IncorrectCells(BoardOf(last.gid), SolutionOf(last.gid)) # {}) =>
        LET p == RowMajorFirst(IncorrectCells(BoardOf(last.gid), SolutionOf(last.gid)))
        IN  /\ last.status = "ok"
            /\ last.hint.is_incorrect = TRUE
            /\ HintCell = p
            /\ last.hint.value = SolutionOf(last.gid)[p[1]][p[2]]

\* a correction hint for (0, 1) on a board whose cell (1, 0) is incorrect too
\* and which has empty cells a completion hint could have named
C2_Witness ==
    /\ HintAnswered
    /\ last.hint.is_incorrect
    /\ HintCell = <<0, 1>>
    /\ <<1, 0>> \in IncorrectCells(BoardOf(last.gid), SolutionOf(last.gid))
    /\ OpenCells(BoardOf(last.gid)) # {}

\* C3: when no non-empty cell is incorrect, get_hint names, among the empty
\* cells with at least one candidate, the row-major-first of those with the
\* fewest candidates, with the solution's digit and is_incorrect = false; on
\* a board with no digit at all that cell is (0, 0).
C3_FewestCandidatesFirst ==
    (HintAnswered /\ IncorrectCells(BoardOf(last.gid), SolutionOf(last.gid)) = {}) =>
        LET board == BoardOf(last.gid)
            count == Counts(board)
            open == {p \in EmptyCells(board) : count[p] > 0}
            best == {p \in open : \A q \in open : count[p] <= count[q]}
        IN  /\ open # {} =>
                /\ last.status = "ok"
                /\ last.hint.is_incorrect = FALSE
                /\ HintCell = RowMajorFirst(best)
                /\ last.hint.value = SolutionOf(last.gid)[HintCell[1]][HintCell[2]]
            /\ EmptyCells(board) = Cells => (last.status = "ok" /\ HintCell = <<0, 0>>)

\* a completion hint for a cell that is not the first empty one: an earlier
\* empty cell has more candidates, or none
C3_Witness ==
    /\ HintAnswered
    /\ last.status = "ok"
    /\ ~last.hint.is_incorrect
    /\ LET board == BoardOf(last.gid)
           count == Counts(board)
       IN  /\ \E p \in EmptyCells(board) :
                  Order(p) < Order(HintCell) /\ count[p] > count[HintCell]
           /\ \E p \in EmptyCells(board) :
                  p # HintCell /\ count[p] = count[HintCell]

\* C4: with a solution that is a complete valid grid, get_hint fails with
\* NoHintAvailable exactly when the board has no empty cell and equals the
\* solution in every cell.
C4_NoHintIffSolved ==
    (HintAnswered /\ ValidSolution(SolutionOf(last.gid))) =>
        (last.status = "NoHintAvailable" <=> BoardOf(last.gid) = SolutionOf(last.gid))

\* get_hint failed with NoHintAvailable on a solved board
C4_Witness ==
    /\ HintAnswered
    /\ ValidSolution(SolutionOf(last.gid))
    /\ last.status = "NoHintAvailable"
    /\ BoardOf(last.gid) = SolutionOf(last.gid)

\* the non-zero digits of the cells of a sequence of cells, in that order,
\* leaving out the cell skip
DigitsOf(board, cells, skip) ==
    LET kept == SelectSeq(cells, LAMBDA p : p # skip /\ board[p[1]][p[2]] # 0)
    IN  [k \in 1 .. Len(kept) |-> board[kept[k][1]][kept[k][2]]]

RowCells(row) == [k \in 1 .. 9 |-> <<row, k - 1>>]

ColCells(col) == [k \in 1 .. 9 |-> <<k - 1, col>>]

BoxCells(row, col) ==
    [k \in 1 .. 9 |-> <<3 * (row \div 3) + ((k - 1) \div 3),
                        3 * (col \div 3) + ((k - 1) % 3)>>]

\* C5: in the explanation of a hint each of the three lists holds exactly the
\* non-zero digits of the cells of the unit other than the target cell (which
\* is empty in a completion hint), a digit equal to the target's wrong value
\* included.
C5_ListsAreOtherCells ==
    (HintAnswered /\ last.status = "ok") =>
        LET board == BoardOf(last.gid)
        IN  /\ last.hint.row_nums = DigitsOf(board, RowCells(HintCell[1]), HintCell)
            /\ last.hint.col_nums = DigitsOf(board, ColCells(HintCell[2]), HintCell)
            /\ last.hint.box_nums =
                   DigitsOf(board, BoxCells(HintCell[1], HintCell[2]), HintCell)

----------------------------------------------------------------------------
(* What the account claims speak of.  In a step, last' is the response     *)
(* of the request the step handled and the unprimed tables are the         *)
(* database the request found.                                             *)

\* the rows of a code table that hold a code value and a purpose
Matching(table, code, purpose) ==
    {k \in 1 .. Len(table) : table[k].code = code /\ table[k].purpose = purpose}

\* a table without its row k
Without(table, k) == SubSeq(table, 1, k - 1) \o SubSeq(table, k + 1, Len(table))

\* the rows among those that belong to the account of an e-mail address
OwnedBy(rows, email) ==
    {k \in rows : \E u \in Elems(users) : u.id = codes[k].user_id /\ u.email = email}

\* C6 as claimed: once a consuming validation has succeeded with a code value,
\* a consuming validation with the same value and purpose fails with
\* InvalidCode; stated for the validation that comes next.
C6_ValueNeverValidatesAgain ==
    [][(/\ last.op \in ConsumingOps
        /\ last.status = "ok"
        /\ last'.op \in ConsumingOps
        /\ PurposeOf(last'.op) = PurposeOf(last.op)
        /\ last'.code = last.code) => last'.status = "InvalidCode"]_vars

\* C6 as amended: a successful consuming validation deletes the one row it
\* matched and nothing else, so that row validates once; a consuming
\* validation fails with InvalidCode whenever no stored row holds the value
\* and purpose, and after a success none does unless a second row held them.
C6_RecordValidatesOnce ==
    [][last'.op \in ConsumingOps =>
          LET hits == Matching(codes, last'.code, PurposeOf(last'.op))
          IN  /\ hits = {} => (last'.status = "InvalidCode" /\ codes' = codes)
              /\ last'.status = "ok" =>
                     \E k \in OwnedBy(hits, last'.email) :
                         /\ codes[k].expires_at >= now
                         /\ codes' = Without(codes, k)
              /\ (last'.status = "ok" /\ Cardinality(hits) = 1) =>
                     Matching(codes', last'.code, PurposeOf(last'.op)) = {}
              /\ last'.status # "ok" => codes' = codes]_vars

\* a consuming validation succeeded before the expiry of its row, no row with
\* the value and purpose is left, and the other account's row is still stored
C6_Witness ==
    /\ last.op \in ConsumingOps
    /\ last.status = "ok"
    /\ Matching(codes, last.code, PurposeOf(last.op)) = {}
    /\ Len(codes) = 1
    /\ now < codes[1].expires_at

\* C7: a validation that submits the value, purpose and e-mail address of a
\* stored row whose expiry instant has passed fails with ExpiredCode, in
\* verify_registration, verify_code and reset_password alike, and the failing
\* call deletes no code and changes no password.
C7_ExpiredCodeRejected ==
    [][last'.op \in ValidationOps =>
          LET own == OwnedBy(Matching(codes, last'.code, PurposeOf(last'.op)),
                             last'.email)
          IN  /\ (\E k \in own : codes[k].expires_at < now) =>
                     last'.status = "ExpiredCode"
              /\ last'.status = "ExpiredCode" =>
                     (codes' = codes /\ users' = users /\ games' = games)]_vars

\* reset_password was refused with ExpiredCode for the account's own expired
\* code, and the row is still stored
C7_Witness ==
    /\ last.op = "reset_password"
    /\ last.status = "ExpiredCode"
    /\ \E k \in OwnedBy(Matching(codes, last.code, "password_reset"), last.email) :
           codes[k].expires_at < now

\* no two accounts share an e-mail address or a username
UniqueAccounts ==
    \A i, j \in 1 .. Len(users) :
        i # j => (users[i].email # users[j].email
                  /\ users[i].username # users[j].username)

\* C9: no two accounts ever share an e-mail address or a username; register
\* with a registered address fails with DuplicateEmail, with a used username
\* with DuplicateUsername (DuplicateEmail when the address is registered too,
\* the address being looked up first), and neither creates an account or a code.
C9_UniqueEmailAndUsername ==
    [][/\ UniqueAccounts
       /\ UniqueAccounts'
       /\ last'.op = "register" =>
              LET emailTaken == \E u \in Elems(users) : u.email = last'.email
                  nameTaken == \E u \in Elems(users) : u.username = last'.username
              IN  /\ emailTaken <=> last'.status = "DuplicateEmail"
                  /\ (nameTaken /\ ~emailTaken) <=> last'.status = "DuplicateUsername"
                  /\ (emailTaken \/ nameTaken) => (users' = users /\ codes' = codes)]_vars

\* register was refused with DuplicateUsername: the username is used and the
\* address is fresh
C9_Witness ==
    /\ last.op = "register"
    /\ last.status = "DuplicateUsername"
    /\ \A u \in Elems(users) : u.email # last.email
    /\ \E u \in Elems(users) : u.username = last.username

\* C10: a request that is answered with an error leaves accounts, codes and
\* games as it found them.
C10_ErrorsChangeNothing ==
    [][last'.status # "ok" =>
          (users' = users /\ codes' = codes /\ games' = games)]_vars

\* C11: when two requests submit the same stored code to verify_registration,
\* or to reset_password, at the same time, at most one of them is answered
\* with success, however their statements interleave.
C11_AtMostOneSucceeds ==
    \A r1 \in Requests, r2 \in Requests :
        (/\ r1 # r2
         /\ inflight[r1].pc = "done"
         /\ inflight[r2].pc = "done"
         /\ inflight[r1].op = inflight[r2].op
         /\ inflight[r1].row # <<>>
         /\ inflight[r1].row = inflight[r2].row) =>
            ~(inflight[r1].status = "ok" /\ inflight[r2].status = "ok")

\* C8: get_hint, update_game and delete_game asked by an account that is not
\* the owner of the record fail with Forbidden, return nothing of it and leave
\* it as it is; whatever step changes or removes a record, or reads it, is a
\* request of its owner, and a new record belongs to the caller.
C8_OwnerOnly ==
    [][/\ (/\ last'.op \in {"get_hint", "update_game", "delete_game"}
           /\ last'.gid \in DOMAIN games
           /\ games[last'.gid].user_id # last'.caller) =>
              (last'.status = "Forbidden" /\ games' = games /\ last'.hint = NoHint)
       /\ \A g \in DOMAIN games :
              (g \notin DOMAIN games' \/ games'[g] # games[g]) =>
                  (last'.caller = games[g].user_id /\ last'.gid = g)
       /\ \A g \in DOMAIN games' \ DOMAIN games : games'[g].user_id = last'.caller
       /\ (last'.op = "get_hint" /\ last'.status \in {"ok", "NoHintAvailable"}) =>
              games[last'.gid].user_id = last'.caller
       /\ last'.op = "get_games" =>
              \A g \in last'.listed : games[g].user_id = last'.caller]_vars

\* update_game was refused with Forbidden on a stored record of another account
C8_Witness ==
    /\ last.op = "update_game"
    /\ last.status = "Forbidden"
    /\ last.gid \in DOMAIN games
    /\ games[last.gid].user_id # last.caller

\* the records of an account that are not hidden
VisibleOf(rows, user_id) ==
    {g \in DOMAIN rows : rows[g].user_id = user_id /\ ~rows[g].is_hidden}

\* C12: get_games asked by an account for its own id returns exactly the
\* stored records of that account that are not hidden, so no hidden record and
\* no record of another account; asked for another account's id it fails with
\* Forbidden and returns nothing; it changes no record.
C12_ListsOwnVisible ==
    [][last'.op = "get_games" =>
          /\ games' = games
          /\ IF last'.owner = last'.caller
             THEN /\ last'.status = "ok"
                  /\ last'.listed = VisibleOf(games, last'.caller)
             ELSE /\ last'.status = "Forbidden"
                  /\ last'.listed = {}]_vars

\* get_games listed a record of the caller while a hidden record of the
\* caller is stored and is not listed
C12_Witness ==
    /\ last.op = "get_games"
    /\ last.status = "ok"
    /\ last.listed # {}
    /\ \E g \in DOMAIN games \ last.listed :
           games[g].user_id = last.caller /\ games[g].is_hidden

\* C13: the time_played an update stores is never smaller than the
\* time_played the record held before it.
C13_TimePlayedNeverDecreases ==
    [][(last'.op = "update_game" /\ last'.status = "ok") =>
          games'[last'.gid].time_played >= games[last'.gid].time_played]_vars

\* the cells of a stored grid text that hold a clue
ClueCells(text) == {p \in Cells : json_loads(text)[p[1]][p[2]] # 0}

\* C14: no step changes, in the board of a stored record, a cell that is
\* non-zero in the record's initial_puzzle.
C14_ClueCellsNeverChange ==
    [][\A g \in DOMAIN games \cap DOMAIN games' :
          \A p \in ClueCells(games[g].initial_puzzle) :
              json_loads(games'[g].board)[p[1]][p[2]]
                  = json_loads(games[g].board)[p[1]][p[2]]]_vars

\* the fields of a record that update_game has no assignment for
Fixed(db_game) ==
    <<db_game.user_id, db_game.initial_puzzle, db_game.solution,
      db_game.level, db_game.created_at>>

\* C15: create_game for the caller's own id adds one record whose owner is
\* the caller and changes no other, for another id it fails with Forbidden
\* and adds nothing; update_game leaves the owner, initial_puzzle, solution,
\* level and creation time of its record, and every other record, as they
\* were; and no step changes the owner of a record that stays stored.
C15_OwnerFixedAtCreation ==
    [][/\ last'.op = "create_game" =>
              IF last'.owner # last'.caller
              THEN last'.status = "Forbidden" /\ games' = games
              ELSE /\ last'.status = "ok"
                   /\ last'.gid \notin DOMAIN games
                   /\ DOMAIN games' = DOMAIN games \cup {last'.gid}
                   /\ games'[last'.gid].user_id = last'.caller
                   /\ \A g \in DOMAIN games : games'[g] = games[g]
       /\ last'.op = "update_game" =>
              /\ DOMAIN games' = DOMAIN games
              /\ \A g \in DOMAIN games :
                     /\ Fixed(games'[g]) = Fixed(games[g])
                     /\ g # last'.gid => games'[g] = games[g]
       /\ \A g \in DOMAIN games \cap DOMAIN games' :
              games'[g].user_id = games[g].user_id]_vars

\* update_game stored a new board, time and visibility in the record of its
\* caller while a record of the other account is stored
C15_Witness ==
    /\ last.op = "update_game"
    /\ last.status = "ok"
    /\ games[last.gid].user_id = last.caller
    /\ games[last.gid].board # games[last.gid].initial_puzzle
    /\ games[last.gid].time_played = MaxPlayed
    /\ games[last.gid].is_hidden
    /\ \E g \in DOMAIN games : games[g].user_id # last.caller

\* C16: accounts are never removed and keep their id, username and address;
\* the password hash of an account changes only in a reset_password step that
\* succeeds and that presented the address of that account and the value of
\* a stored password_reset row of that account whose expiry instant has not
\* passed.  So no other operation, no failed reset_password, and no reset for
\* another account's code changes it.
C16_PasswordChangesOnlyByReset ==
    [][/\ Len(users') >= Len(users)
       /\ \A i \in 1 .. Len(users) :
              /\ users'[i].id = users[i].id
              /\ users'[i].username = users[i].username
              /\ users'[i].email = users[i].email
              /\ users'[i].hashed_password # users[i].hashed_password =>
                     /\ last'.op = "reset_password"
                     /\ last'.status = "ok"
                     /\ last'.email = users[i].email
                     /\ \E k \in Matching(codes, last'.code, "password_reset") :
                            /\ codes[k].user_id = users[i].id
                            /\ ~(now > codes[k].expires_at)]_vars

\* reset_password succeeded for one of two accounts, whose passwords differ
C16_Witness ==
    /\ last.op = "reset_password"
    /\ last.status = "ok"
    /\ Len(users) = 2
    /\ users[1].hashed_password # users[2].hashed_password

\* the rows of a code table that were issued for another purpose
OtherPurpose(table, purpose) == SelectSeq(table, LAMBDA vc : vc.purpose # purpose)

\* C17: a validation finds only rows of the purpose of its endpoint: when no
\* stored row holds the submitted value with that purpose it fails with
\* InvalidCode and changes nothing, whatever rows hold the value with the
\* other purpose; when it succeeds, the account of the submitted address holds
\* an unexpired row with the value and that purpose; and no validation deletes
\* a row of the other purpose.
C17_PurposeIsPartOfKey ==
    [][last'.op \in ValidationOps =>
          LET purpose == PurposeOf(last'.op)
          IN  /\ Matching(codes, last'.code, purpose) = {} =>
                     (last'.status = "InvalidCode" /\ codes' = codes /\ users' = users)
              /\ last'.status = "ok" =>
                     \E k \in OwnedBy(Matching(codes, last'.code, purpose), last'.email) :
                         now <= codes[k].expires_at
              /\ OtherPurpose(codes', purpose) = OtherPurpose(codes, purpose)]_vars

\* reset_password failed with InvalidCode although the account of the
\* submitted address holds an unexpired registration row with the value
C17_Witness ==
    /\ last.op = "reset_password"
    /\ last.status = "InvalidCode"
    /\ \E k \in OwnedBy(Matching(codes, last.code, "registration"), last.email) :
           now <= codes[k].expires_at

\* C19: verify_code changes no account, code or game, whether it succeeds or
\* fails, and a reset_password with the same value and address that comes
\* next gets the answer the probe got: success after a successful probe.
C19_ProbeChangesNothing ==
    [][/\ last'.op = "verify_code" =>
              (users' = users /\ codes' = codes /\ games' = games)
       /\ (/\ last.op = "verify_code"
           /\ last'.op = "reset_password"
           /\ last'.code = last.code
           /\ last'.email = last.email) => last'.status = last.status]_vars

\* verify_code succeeded and the row it matched is still stored
C19_Witness ==
    /\ last.op = "verify_code"
    /\ last.status = "ok"
    /\ \E k \in OwnedBy(Matching(codes, last.code, "password_reset"), last.email) :
           now <= codes[k].expires_at

\* the row the query of a validation returns: the first that matches
Matched(table, code, purpose) ==
    CHOOSE k \in Matching(table, code, purpose) :
        \A m \in Matching(table, code, purpose) : k <= m

\* C20 as claimed: a validation succeeds only while the clock is before the
\* expiry instant of the row it matched, the instant itself excluded.
C20_UsableOnlyBeforeExpiry ==
    [][(last'.op \in ValidationOps /\ last'.status = "ok") =>
          now < codes[Matched(codes, last'.code, PurposeOf(last'.op))].expires_at]_vars

\* C20 as amended: a validation whose matched row has its expiry instant
\* behind the clock fails with ExpiredCode, so none succeeds at
\* now > expires_at; at the instant now = expires_at the row is still
\* accepted, and the validation succeeds when the address is its account's.
C20_UsableUntilExpiry ==
    [][(/\ last'.op \in ValidationOps
        /\ Matching(codes, last'.code, PurposeOf(last'.op)) # {}) =>
          LET hits == Matching(codes, last'.code, PurposeOf(last'.op))
              k == Matched(codes, last'.code, PurposeOf(last'.op))
          IN  /\ now > codes[k].expires_at => last'.status = "ExpiredCode"
              /\ last'.status = "ok" => now <= codes[k].expires_at
              /\ (now = codes[k].expires_at /\ k \in OwnedBy(hits, last'.email)) =>
                     last'.status = "ok"]_vars

\* verify_registration succeeded for the first account at the expiry instant
\* of its code: the second account's registration row, issued no earlier,
\* is still stored and expires now
C20_Witness ==
    /\ last.op = "verify_registration"
    /\ last.status = "ok"
    /\ Len(users) = 2
    /\ last.email = users[1].email
    /\ Len(codes) = 1
    /\ codes[1].user_id = users[2].id
    /\ codes[1].purpose = "registration"
    /\ codes[1].expires_at = now

\* C18: with a solution that is a complete valid grid, the digit of a returned
\* hint is held by no other cell of the row, the column or the box of the
\* hint's cell on the stored board, in a correction as in a completion hint.
C18_HintValueAbsentFromUnits ==
    (HintAnswered /\ last.status = "ok" /\ ValidSolution(SolutionOf(last.gid))) =>
        LET board == BoardOf(last.gid)
        IN  \A q \in Units[HintCell] \ {HintCell} :
                board[q[1]][q[2]] # last.hint.value

\* C21: a validation that submits the value of a stored row of the purpose of
\* its endpoint whose expiry instant has not passed, together with the address
\* of the account the row belongs to, succeeds, whatever other rows are stored.
C21_OwnUnexpiredCodeSucceeds ==
    [][last'.op \in ValidationOps =>
          ((\E k \in OwnedBy(Matching(codes, last'.code, PurposeOf(last'.op)),
                             last'.email) : now <= codes[k].expires_at)
              => last'.status = "ok")]_vars

====
